---- MODULE Spec2Model ----
(***************************************************************************)
(* Media Hub: the resumable chunked upload orchestrator.                   *)
(*                                                                         *)
(*   LargeFileUpload   the chunk loop, its retry handling and the          *)
(*                     confirmation step (client component)                *)
(*   SmartFileUpload   single-file dispatcher that hosts a LargeFileUpload *)
(*   BatchUpload       size-tiered dispatcher and upload queue             *)
(*   confirm-upload    the completion reconciler (server route) and the    *)
(*                     File table with its unique driveFileId index        *)
(*                                                                         *)
(* Byte sizes are the program's own (bytes).  The storage backend and the  *)
(* network are the environment: their answers are chosen                   *)
(* nondeterministically, faulty answers within a budget.                   *)
(***************************************************************************)
EXTENDS Integers, Sequences, FiniteSets, TLC

VARIABLES
    lfu,          \* LargeFileUpload instances, by instance id
    smart,        \* SmartFileUpload component state
    batch,        \* BatchUpload component state
    driveFiles,   \* files assembled by the storage backend
    db,           \* the File table (sequence of records, id = position)
    lastConfirm,  \* outcome of the latest POST /confirm-upload
    interrupted,  \* the upload cut off by the latest page reload
    faults,       \* faulty backend / network answers injected so far
    disk,         \* the files the user can select (a file is identified by its size;
                  \* a batch takes files that no earlier batch took)
    srv,          \* the server: route handlers in progress, the owner's folders,
                  \* the rate-limit log
    proxy,        \* chunk PUTs of the proxy still in flight towards the storage
                  \* backend after the client gave the request up
    tx,           \* one call of uploadChunk taken on its own
    cu,           \* the ClientUpload component
    limiter,      \* the upload rate limiters of one owner and their clock
    dedup         \* the request cache of dedupedFetch for one key and its clock

vars == <<lfu, smart, batch, driveFiles, db, lastConfirm, interrupted, faults, disk, srv, proxy, tx,
          cu, limiter, dedup>>

(***************************************************************************)
(* Program constants                                                       *)
(***************************************************************************)
INSTANT_LIMIT == 4718592        \* 4.5 * 1024 * 1024
MEDIUM_LIMIT == 524288000       \* 500 * 1024 * 1024
CHUNK_SIZE == 10485760          \* 10 * 1024 * 1024
serverUploadLimit == 4718592    \* 4.5 * 1024 * 1024
MaxRetryCount == 3              \* retryCount < 3

(***************************************************************************)
(* Bounds of the model                                                     *)
(***************************************************************************)
MaxUploads == 3     \* LargeFileUpload instances ever mounted
MaxFaults == 4      \* faulty answers of the backend / network
MaxReloads == 1     \* page reloads
MaxFiles == 2       \* files in one selected batch
MaxBatches == 2     \* batches selected in BatchUpload
MaxReloadChunks == 2    \* a reload interrupts an upload within its first chunks
MaxSmartUploads == 2    \* resumable uploads started through SmartFileUpload
MaxServerUploads == 1   \* single-request uploads through SmartFileUpload

NULL == 0

Min(a, b) == IF a < b THEN a ELSE b

Ids == 1..MaxUploads

\* The next unused instance id (MaxUploads + 1 when none is left).
FreeId(l) == IF \E u \in Ids : l[u].pc = "idle"
             THEN CHOOSE u \in Ids : l[u].pc = "idle" /\ \A v \in Ids : v < u => l[v].pc # "idle"
             ELSE MaxUploads + 1

(***************************************************************************)
(* LargeFileUpload                                                         *)
(***************************************************************************)
\* Component state after useState initialisation, before the mount effect.
\* The argument of onProgress, (bytes / total) * 100, kept as the pair it is
\* computed from.
Progress(bytes, total) == [ bytes |-> bytes, total |-> total ]

NoProgress == Progress(0, 1)

IdleLfu ==
    [ file |-> 0, parent |-> "none", idx |-> 0, cui |-> 0, gen |-> 0,
      mounted |-> FALSE, pc |-> "idle",
      sessionUri |-> NULL, start |-> 0, end |-> 0, retryCount |-> 0,
      uploadedBytes |-> 0,
      \* observation of the run (not read by the program)
      attempts |-> 0, delays |-> 0, delay |-> 0, chunks |-> 0, firstStart |-> -1,
      acked |-> 0, lastResp |-> "none", onComplete |-> 0, onError |-> 0,
      confirmed |-> FALSE, resumeFrom |-> 0, progress |-> NoProgress ]

\* useEffect on mount: isUploading false, uploadedBytes 0, no session ->
\* performUpload() starts and createUploadSession() is in flight.
MountLfu(size, parent, idx, cui, gen, resumeFrom) ==
    [ IdleLfu EXCEPT !.file = size, !.parent = parent, !.idx = idx, !.cui = cui,
                     !.gen = gen, !.mounted = TRUE, !.pc = "session",
                     !.resumeFrom = resumeFrom ]

\* setUploadedBytes: a state setter of an unmounted component changes nothing.
SetUploadedBytes(r, v) == IF r.mounted THEN [r EXCEPT !.uploadedBytes = v] ELSE r

\* Faulty variant of LoopFrom: chunks of half the size.
LoopFromHalf(r, s) ==
    IF s < r.file
    THEN [ r EXCEPT !.start = s, !.end = Min(s + CHUNK_SIZE \div 2, r.file),
                    !.retryCount = 0, !.pc = "sending",
                    !.attempts = 1, !.delays = 0, !.chunks = @ + 1,
                    !.firstStart = IF r.chunks = 0 THEN s ELSE @,
                    !.lastResp = "none" ]
    ELSE [ r EXCEPT !.start = s, !.pc = "exited" ]

\* One iteration head of the while loop of performUpload, entered with start = s:
\* either the next chunk [s, end) is handed to uploadChunk (retryCount = 0), or
\* the loop condition fails and performUpload returns through finally.
LoopFrom(r, s) ==
    IF s < r.file
    THEN [ r EXCEPT !.start = s, !.end = Min(s + CHUNK_SIZE, r.file),
                    !.retryCount = 0, !.pc = "sending",
                    !.attempts = 1, !.delays = 0, !.chunks = @ + 1,
                    !.firstStart = IF r.chunks = 0 THEN s ELSE @,
                    !.lastResp = "none" ]
    ELSE [ r EXCEPT !.start = s, !.pc = "exited" ]

\* The catch block of uploadChunk: any error (status error, network error,
\* AbortError of the 60 s timeout) is retried while retryCount < 3, after a
\* delay of 1000 * (retryCount + 1) ms; otherwise it is rethrown.
RetryAllowed(retryCount, kind) == retryCount < MaxRetryCount

BaseDelay == 1000       \* ms

\* setTimeout(resolve, 1000 * (retryCount + 1)) of that catch block
RetryDelay(retryCount) == BaseDelay * (retryCount + 1)

\* The backend's answers to one chunk PUT, as seen through the proxy.
\*   ok308     308 with Range: bytes=0-(end-1)
\*   ack       308 with Range: bytes=0-(range-1), range # end
\*   norange   308 without a Range header
\*   done      200 / 201 with the file metadata
\*   e4xx, e5xx, timeout   failures
Acks(r) == { a \in { CHUNK_SIZE \div 2, r.end - 1, r.file + 1 } : a >= 1 /\ a # r.end }

ChunkAnswers(r) ==
    { [kind |-> IF r.end = r.file THEN "done" ELSE "ok308", range |-> r.end] }
    \cup (IF faults < MaxFaults
          THEN { [kind |-> "ack", range |-> a] : a \in Acks(r) }
               \cup { [kind |-> k, range |-> 0] : k \in {"norange", "e4xx", "e5xx", "timeout"} }
               \cup (IF r.end = r.file THEN { [kind |-> "ok308", range |-> r.end] } ELSE {})
          ELSE {})

IsFault(r, a) == ~(a.kind = "done" \/ (a.kind = "ok308" /\ r.end # r.file))

(***************************************************************************)
(* SmartFileUpload                                                         *)
(***************************************************************************)
InitSmart == [ uploading |-> FALSE, largeFile |-> NULL, serverReq |-> NULL,
               error |-> FALSE, success |-> FALSE ]

\* onComplete / onError props handed to LargeFileUpload
SmartOnComplete(sm) ==
    [ sm EXCEPT !.uploading = FALSE, !.largeFile = NULL, !.success = TRUE ]

SmartOnError(sm) ==
    [ sm EXCEPT !.uploading = FALSE, !.largeFile = NULL, !.error = TRUE ]

(***************************************************************************)
(* POST /api/files/confirm-upload and the File table                       *)
(***************************************************************************)
\* Answers of the session's status probe (empty PUT, Content-Range: bytes */size)
ProbeAnswers(files, s) ==
    IF \E f \in files : f.id = s THEN {"id", "noid", "error"} ELSE {"incomplete", "error"}

\* drive.files.list by name in the user's folder: the ids it can put first
ByName(files, name) == { f.id : f \in { g \in files : g.name = name } }

FirstByName(files, name) == IF ByName(files, name) = {} THEN {NULL} ELSE ByName(files, name)

\* Faulty variant of HasDriveFileId: the table has no unique index.
NoUniqueIndex(d, fileId) == FALSE

\* prisma.file.create under the unique index File_driveFileId_key
HasDriveFileId(d, fileId) == \E i \in DOMAIN d : d[i].driveFileId = fileId

\* Faulty variant of ConfirmPOST: a 308 of the status probe is not an error, the
\* by-name search follows it.
ConfirmPOSTUnprobed(d, files, s, name, probe, pick) ==
    LET fileId == IF probe = "id" THEN s
                  ELSE IF probe \in {"noid", "incomplete"} THEN pick
                  ELSE NULL
        meta == CHOOSE f \in files : f.id = fileId
    IN  IF probe = "error" \/ fileId = NULL
        THEN [ db |-> d, ok |-> FALSE, fileId |-> NULL, existed |-> FALSE, recId |-> 0,
               probe |-> probe, session |-> s ]
        ELSE IF HasDriveFileId(d, fileId)
        THEN [ db |-> d, ok |-> FALSE, fileId |-> fileId, existed |-> TRUE, recId |-> 0,
               probe |-> probe, session |-> s ]
        ELSE [ db |-> Append(d, [ driveFileId |-> fileId, name |-> meta.name, size |-> meta.size,
                                 via |-> "confirm", isDeleted |-> FALSE ]),
               ok |-> TRUE, fileId |-> fileId, existed |-> FALSE, recId |-> Len(d) + 1,
               probe |-> probe, session |-> s ]

\* The route handler.  probe: the status probe's answer; pick: files[0] of the
\* by-name search.  Result: the table afterwards and the response.
ConfirmPOST(d, files, s, name, probe, pick) ==
    LET fileId == IF probe = "id" THEN s
                  ELSE IF probe = "noid" THEN pick
                  ELSE NULL
        meta == CHOOSE f \in files : f.id = fileId
    IN  IF probe \in {"incomplete", "error"} \/ fileId = NULL
        THEN [ db |-> d, ok |-> FALSE, fileId |-> NULL, existed |-> FALSE, recId |-> 0,
               probe |-> probe, session |-> s ]
        ELSE IF HasDriveFileId(d, fileId)
        THEN [ db |-> d, ok |-> FALSE, fileId |-> fileId, existed |-> TRUE, recId |-> 0,
               probe |-> probe, session |-> s ]
        ELSE [ db |-> Append(d, [ driveFileId |-> fileId, name |-> meta.name, size |-> meta.size,
                                 via |-> "confirm", isDeleted |-> FALSE ]),
               ok |-> TRUE, fileId |-> fileId, existed |-> FALSE, recId |-> Len(d) + 1,
               probe |-> probe, session |-> s ]

NoConfirm == [ called |-> FALSE, ok |-> FALSE, fileId |-> NULL, existed |-> FALSE, recId |-> 0,
               probe |-> "none", session |-> NULL ]

AsLastConfirm(res) ==
    [ called |-> TRUE, ok |-> res.ok, fileId |-> res.fileId, existed |-> res.existed,
      recId |-> res.recId, probe |-> res.probe, session |-> res.session ]

(***************************************************************************)
(* BatchUpload                                                             *)
(*                                                                         *)
(* File indices are 1-based here: index i of the code is i + 1, and        *)
(* currentUploadIndex = null is NULL.                                      *)
(***************************************************************************)
InitBatch == [ fileStatuses |-> << >>, cui |-> NULL, gen |-> 0, instant |-> {},
               showManual |-> FALSE, completes |-> 0 ]

\* categorizeFiles: the group a file of this size is pushed to
\* Faulty variant of categorizeFiles: open upper bounds.
categorizeFilesOpen(size) ==
    IF size < INSTANT_LIMIT THEN "instant"
    ELSE IF size < MEDIUM_LIMIT THEN "medium"
    ELSE "manual"

categorizeFiles(size) ==
    IF size <= INSTANT_LIMIT THEN "instant"
    ELSE IF size <= MEDIUM_LIMIT THEN "medium"
    ELSE "manual"

RECURSIVE GroupOf(_, _)
\* The files of one group, in selection order
GroupOf(files, g) ==
    IF files = << >> THEN << >>
    ELSE IF categorizeFiles(Head(files)) = g
         THEN << Head(files) >> \o GroupOf(Tail(files), g)
         ELSE GroupOf(Tail(files), g)

StatusEntry(size, status) == [ size |-> size, status |-> status ]

\* handleFiles: the status entries, instant files first, then medium, then manual
Statuses(files) ==
    [ i \in 1..Len(GroupOf(files, "instant")) |-> StatusEntry(GroupOf(files, "instant")[i], "pending") ]
    \o [ i \in 1..Len(GroupOf(files, "medium")) |-> StatusEntry(GroupOf(files, "medium")[i], "pending") ]
    \o [ i \in 1..Len(GroupOf(files, "manual")) |-> StatusEntry(GroupOf(files, "manual")[i], "too-large") ]

\* The "Medium Files" section renders a LargeFileUpload for an entry iff
\* INSTANT_LIMIT < size <= MEDIUM_LIMIT, status 'uploading' and it is the current index.
RendersLfu(fs, cui) ==
    /\ cui # NULL /\ cui <= Len(fs)
    /\ fs[cui].size > INSTANT_LIMIT /\ fs[cui].size <= MEDIUM_LIMIT
    /\ fs[cui].status = "uploading"

\* A commit (render) of BatchUpload: every LargeFileUpload of the previous render is
\* unmounted (the current index moved), and the one the new render asks for is mounted
\* afresh; its mount effect starts performUpload.
Commit(st) ==
    LET unm == [ u \in Ids |-> IF st.lfu[u].parent = "batch"
                               THEN [ st.lfu[u] EXCEPT !.mounted = FALSE ] ELSE st.lfu[u] ]
        id == FreeId(unm)
    IN  IF ~RendersLfu(st.fs, st.cui) THEN [ st EXCEPT !.lfu = unm ]
        ELSE IF id > MaxUploads THEN [ st EXCEPT !.overflow = TRUE ]
        ELSE [ st EXCEPT !.lfu = [ unm EXCEPT ![id] =
                   MountLfu(st.fs[st.cui].size, "batch", st.cui, st.cui, st.gen, 0) ] ]

\* Which branch of the queue effect takes a pending file
QueuePath(size) ==
    IF size <= INSTANT_LIMIT THEN "instant"
    ELSE IF size <= MEDIUM_LIMIT THEN "medium"
    ELSE "none"

AllProcessed(fs) == \A i \in DOMAIN fs : fs[i].status \in {"completed", "failed", "too-large"}

\* One run of the "process upload queue" effect
QueueEffect(st) ==
    IF st.cui > Len(st.fs)
    THEN [ st EXCEPT !.cui = NULL,
                     !.completes = IF AllProcessed(st.fs) /\ Len(st.fs) > 0 THEN @ + 1 ELSE @ ]
    ELSE IF st.fs[st.cui].status # "pending"
    THEN [ st EXCEPT !.cui = @ + 1 ]
    ELSE [ st EXCEPT !.fs[st.cui].status = "uploading",
                     !.instant = IF QueuePath(st.fs[st.cui].size) = "instant"
                                 THEN @ \cup { [ idx |-> st.cui, size |-> st.fs[st.cui].size,
                                                 gen |-> st.gen ] }
                                 ELSE @ ]

RECURSIVE Cascade(_)
\* The effect depends on [currentUploadIndex, fileStatuses]: it runs again after every
\* commit that changed either, until the index is null.
Cascade(st) ==
    IF st.cui = NULL \/ st.overflow THEN st
    ELSE Cascade(Commit(QueueEffect(st)))

\* State updates of one handler, committed and followed by the effect cascade
Settle(l, b, fs, cui) ==
    Cascade(Commit([ lfu |-> l, fs |-> fs, cui |-> cui, gen |-> b.gen,
                     instant |-> b.instant, completes |-> b.completes,
                     overflow |-> FALSE ]))

BatchOf(b, st) ==
    [ b EXCEPT !.fileStatuses = st.fs, !.cui = st.cui, !.instant = st.instant,
               !.completes = st.completes ]

\* setFileStatuses(prev => prev.map((s, idx) => idx === i ? {...s, status} : s))
MapStatus(fs, i, status) ==
    [ k \in DOMAIN fs |-> IF k = i THEN [ fs[k] EXCEPT !.status = status ] ELSE fs[k] ]

(***************************************************************************)
(* The callbacks a LargeFileUpload was given at mount                      *)
(***************************************************************************)
\* onComplete / onError of instance u (l: the instances after u's own update).
\* SmartFileUpload: clears largeFile, which unmounts the instance.
\* BatchUpload: the closure of the render that mounted u: entry index u.idx and
\* setCurrentUploadIndex((currentUploadIndex || 0) + 1) with the index of that render.
AfterCallback(l, u, status) ==
    IF l[u].parent = "smart"
    THEN [ lfu |-> [ l EXCEPT ![u].mounted = FALSE ],
           smart |-> IF status = "completed" THEN SmartOnComplete(smart) ELSE SmartOnError(smart),
           batch |-> batch, overflow |-> FALSE ]
    ELSE LET st == Settle(l, batch, MapStatus(batch.fileStatuses, l[u].idx, status), l[u].cui + 1)
         IN  [ lfu |-> st.lfu, smart |-> smart, batch |-> BatchOf(batch, st),
               overflow |-> st.overflow ]

\* performUpload has returned: nothing of the loop's locals remains
Finished(r, pc) ==
    [ r EXCEPT !.pc = pc, !.start = 0, !.end = 0, !.retryCount = 0, !.uploadedBytes = 0,
               !.attempts = 0, !.delays = 0, !.chunks = 0, !.firstStart = -1, !.acked = 0,
               !.resumeFrom = 0, !.progress = NoProgress ]

\* Faulty variant of FailUpload: the error is swallowed, no callback runs.
FailUploadDropped(l, u) ==
    [ lfu |-> [ l EXCEPT ![u] = Finished(@, "failed") ],
      smart |-> smart, batch |-> batch, overflow |-> FALSE ]

\* catch of performUpload: onError(message); finally: setIsUploading(false)
FailUpload(l, u) ==
    AfterCallback([ l EXCEPT ![u] = [ Finished(@, "failed") EXCEPT !.onError = @ + 1 ] ],
                  u, "failed")

\* onProgress(100); onComplete(file); return
CompleteUpload(l, u, confirmed) ==
    AfterCallback([ l EXCEPT ![u] = [ Finished(@, "done") EXCEPT !.onComplete = @ + 1,
                                                               !.confirmed = confirmed ] ],
                  u, "completed")

\* uploadChunk's handling of one answer; pc "throw" stands for the rethrown error.
uploadChunk(r, a) ==
    LET seen == [ r EXCEPT !.lastResp = a.kind ]
    IN  CASE a.kind \in {"ok308", "ack"} ->
               [ SetUploadedBytes(seen, a.range) EXCEPT !.acked = a.range, !.pc = "returned",
                                                        !.progress = Progress(a.range, r.file) ]
          [] a.kind = "norange" ->
               [ SetUploadedBytes(seen, r.end) EXCEPT !.pc = "returned",
                                                      !.progress = Progress(r.end, r.file) ]
          [] a.kind = "done" ->
               [ seen EXCEPT !.acked = r.file, !.pc = "confirming" ]
          [] OTHER ->
               IF RetryAllowed(r.retryCount, a.kind)
               THEN [ seen EXCEPT !.pc = "backoff", !.delays = @ + 1,
                                  !.delay = RetryDelay(r.retryCount) ]
               ELSE [ seen EXCEPT !.pc = "throw" ]

\* createUploadSession answered
SessionResponse ==
    /\ UNCHANGED <<disk, srv, proxy, tx, cu, limiter, dedup>>
    /\ \E u \in Ids :
      /\ lfu[u].pc = "session"
      /\ \E ok \in {TRUE} \cup (IF faults < MaxFaults THEN {FALSE} ELSE {}) :
           IF ok
           THEN /\ lfu' = [ lfu EXCEPT ![u] = LoopFrom([ @ EXCEPT !.sessionUri = u ], 0) ]
                /\ UNCHANGED <<smart, batch, faults>>
           ELSE LET res == FailUpload(lfu, u)
                IN  /\ ~res.overflow
                    /\ lfu' = res.lfu /\ smart' = res.smart /\ batch' = res.batch
                    /\ faults' = faults + 1
      /\ UNCHANGED <<driveFiles, db, lastConfirm, interrupted>>

\* The proxy's answer to the chunk PUT in flight
ChunkResponse ==
    /\ UNCHANGED <<disk, srv, proxy, tx, cu, limiter, dedup>>
    /\ \E u \in Ids :
      /\ lfu[u].pc = "sending"
      /\ \E a \in ChunkAnswers(lfu[u]) :
           LET r == uploadChunk(lfu[u], a)
               res == FailUpload(lfu, u)
           IN  /\ faults' = IF IsFault(lfu[u], a) THEN faults + 1 ELSE faults
               /\ driveFiles' = IF a.kind = "done"
                                THEN driveFiles \cup { [ id |-> u, name |-> lfu[u].file,
                                                      size |-> lfu[u].file ] }
                                ELSE driveFiles
               /\ IF r.pc = "throw"
                  THEN /\ ~res.overflow
                       /\ lfu' = [ res.lfu EXCEPT ![u].lastResp = a.kind ]
                       /\ smart' = res.smart /\ batch' = res.batch
                  ELSE /\ lfu' = [ lfu EXCEPT ![u] = r ]
                       /\ UNCHANGED <<smart, batch>>
      /\ UNCHANGED <<db, lastConfirm, interrupted>>

\* The retry delay elapsed: uploadChunk(..., retryCount + 1)
Retry ==
    /\ UNCHANGED <<disk, srv, proxy, tx, cu, limiter, dedup>>
    /\ \E u \in Ids :
      /\ lfu[u].pc = "backoff"
      /\ lfu' = [ lfu EXCEPT ![u].pc = "sending", ![u].retryCount = @ + 1,
                             ![u].attempts = @ + 1, ![u].delay = 0 ]
      /\ UNCHANGED <<smart, batch, driveFiles, db, lastConfirm, interrupted, faults>>

\* performUpload after a chunk that did not complete the file:
\* start = end; setUploadedBytes(end); next iteration
NextChunk ==
    /\ UNCHANGED <<disk, srv, proxy, tx, cu, limiter, dedup>>
    /\ \E u \in Ids :
      /\ lfu[u].pc = "returned"
      /\ lfu' = [ lfu EXCEPT ![u] =
                    LoopFrom([ SetUploadedBytes(@, @.end) EXCEPT
                                 !.progress = Progress(lfu[u].end, lfu[u].file) ], @.end) ]
      /\ UNCHANGED <<smart, batch, driveFiles, db, lastConfirm, interrupted, faults>>

\* The confirmation request of performUpload and what the client makes of it.
\*   net "ok"            the request is answered
\*   net "lostRequest"   the fetch fails before the route runs
\*   net "lostResponse"  the route runs, the answer does not arrive (30 s abort)
ConfirmStep ==
    /\ UNCHANGED <<disk, srv, proxy, tx, cu, limiter, dedup>>
    /\ \E u \in Ids :
      /\ lfu[u].pc = "confirming"
      /\ \E net \in {"ok"} \cup (IF faults < MaxFaults THEN {"lostRequest", "lostResponse"} ELSE {}),
            probe \in {"id"} \cup (IF faults < MaxFaults THEN {"noid", "error"} ELSE {}),
            pick \in FirstByName(driveFiles, lfu[u].file) :
           LET ran == ConfirmPOST(db, driveFiles, u, lfu[u].file, probe, pick)
               res == CompleteUpload(lfu, u, net = "ok" /\ ran.ok)
           IN  /\ net # "ok" => probe = "id"
               /\ probe \in ProbeAnswers(driveFiles, u)
               /\ ~res.overflow
               /\ db' = IF net = "lostRequest" THEN db ELSE ran.db
               /\ lastConfirm' = IF net = "lostRequest" THEN lastConfirm ELSE AsLastConfirm(ran)
               /\ lfu' = res.lfu /\ smart' = res.smart /\ batch' = res.batch
               /\ faults' = IF net # "ok" \/ probe # "id" THEN faults + 1 ELSE faults
      /\ UNCHANGED <<driveFiles, interrupted>>

\* Any client repeating POST /confirm-upload for a session it holds the handle of
ClientConfirm ==
    /\ UNCHANGED <<disk, srv, proxy, tx, cu, limiter, dedup>>
    /\ \E u \in Ids :
      /\ lfu[u].sessionUri # NULL
      /\ \E probe \in ProbeAnswers(driveFiles, u), pick \in FirstByName(driveFiles, lfu[u].file) :
           LET ran == ConfirmPOST(db, driveFiles, u, lfu[u].file, probe, pick)
           IN  /\ probe \in {"noid", "error"} => faults < MaxFaults
               /\ db' = ran.db
               /\ lastConfirm' = AsLastConfirm(ran)
               /\ faults' = IF probe \in {"noid", "error"} THEN faults + 1 ELSE faults
      /\ UNCHANGED <<lfu, smart, batch, driveFiles, interrupted>>

(***************************************************************************)
(* POST /api/files/upload (single request, at most serverUploadLimit)      *)
(***************************************************************************)
NewFileId(files) == MaxUploads + 1 + Cardinality(files)
ServerUploads(files) == Cardinality({ f \in files : f.id > MaxUploads })

UploadPOST(d, files, size) ==
    [ files |-> files \cup { [ id |-> NewFileId(files), name |-> size, size |-> size ] },
      db |-> Append(d, [ driveFileId |-> NewFileId(files), name |-> size, size |-> size,
                         via |-> "upload", isDeleted |-> FALSE ]) ]

(***************************************************************************)
(* SmartFileUpload                                                         *)
(***************************************************************************)
UploadDisks == { { INSTANT_LIMIT, INSTANT_LIMIT + 1 }, { 2 * CHUNK_SIZE + 1 }, { MEDIUM_LIMIT + 1 },
                 { 5 * CHUNK_SIZE } }

ResumeOffset(size) == IF interrupted.file = size THEN interrupted.at ELSE 0

\* handleFiles of SmartFileUpload (the drop zone is disabled while uploading)
SmartHandleFiles ==
    /\ UNCHANGED <<disk, srv, proxy, tx, cu, limiter, dedup>>
    /\ ~smart.uploading
    /\ \E size \in disk, supported \in BOOLEAN :
         LET reset == [ smart EXCEPT !.error = FALSE, !.success = FALSE ]
         IN  IF ~supported
             THEN /\ smart' = [ reset EXCEPT !.error = TRUE ]
                  /\ UNCHANGED lfu
             ELSE IF size > serverUploadLimit
             THEN /\ FreeId(lfu) <= MaxUploads
                  /\ Cardinality({ u \in Ids : lfu[u].pc # "idle" }) < MaxSmartUploads
                  /\ smart' = [ reset EXCEPT !.largeFile = size, !.uploading = TRUE ]
                  /\ lfu' = [ lfu EXCEPT ![FreeId(lfu)] =
                                MountLfu(size, "smart", 0, 0, 0, ResumeOffset(size)) ]
             ELSE /\ ServerUploads(driveFiles) < MaxServerUploads
                  /\ smart' = [ reset EXCEPT !.uploading = TRUE, !.serverReq = size ]
                  /\ UNCHANGED lfu
    /\ UNCHANGED <<batch, driveFiles, db, lastConfirm, interrupted, faults>>

\* uploadViaServer after its fetch
SmartServerResponse ==
    /\ UNCHANGED <<disk, srv, proxy, tx, cu, limiter, dedup>>
    /\ smart.serverReq # NULL
    /\ \E ok \in {TRUE} \cup (IF faults < MaxFaults THEN {FALSE} ELSE {}) :
         LET res == UploadPOST(db, driveFiles, smart.serverReq)
         IN  IF ok
             THEN /\ driveFiles' = res.files /\ db' = res.db
                  /\ smart' = [ smart EXCEPT !.uploading = FALSE, !.serverReq = NULL, !.success = TRUE ]
                  /\ UNCHANGED faults
             ELSE /\ smart' = [ smart EXCEPT !.uploading = FALSE, !.serverReq = NULL, !.error = TRUE ]
                  /\ faults' = faults + 1
                  /\ UNCHANGED <<driveFiles, db>>
    /\ UNCHANGED <<lfu, batch, lastConfirm, interrupted>>

\* The page is reloaded: every component is constructed anew; what the uploads in
\* flight held (useState values, the session handle) is gone with the old page.
InFlight(r) == r.pc \in {"sending", "backoff", "returned"}

Reloads == Cardinality({ u \in Ids : lfu[u].pc = "dead" })

Reload ==
    /\ UNCHANGED <<disk, srv, proxy, tx, cu, limiter, dedup>>
    /\ Reloads < MaxReloads
    /\ \E u \in Ids :
         /\ InFlight(lfu[u]) /\ lfu[u].mounted /\ lfu[u].acked > 0
         /\ lfu[u].acked <= MaxReloadChunks * CHUNK_SIZE
         /\ interrupted' = [ file |-> lfu[u].file, at |-> lfu[u].acked ]
         /\ lfu' = [ lfu EXCEPT ![u] = [ IdleLfu EXCEPT !.pc = "dead", !.file = lfu[u].file,
                                                      !.sessionUri = lfu[u].sessionUri ] ]
    /\ smart' = InitSmart
    /\ UNCHANGED <<batch, driveFiles, db, lastConfirm, faults>>

(***************************************************************************)
(* BatchUpload                                                             *)
(***************************************************************************)
BatchSizes == { INSTANT_LIMIT, INSTANT_LIMIT + 1, CHUNK_SIZE + 1, MEDIUM_LIMIT, MEDIUM_LIMIT + 1 }
\* a selection holds distinct files (a file is identified by its size here)
BatchDisks == { { INSTANT_LIMIT, INSTANT_LIMIT + 1 }, { INSTANT_LIMIT + 1, CHUNK_SIZE + 1 },
                { MEDIUM_LIMIT, MEDIUM_LIMIT + 1 } }
Batches == { files \in UNION { [ 1..n -> BatchSizes ] : n \in 1..MaxFiles } :
               \A i, j \in DOMAIN files : files[i] = files[j] => i = j }

\* handleFiles of BatchUpload
BatchHandleFiles ==
    /\ UNCHANGED <<srv, proxy, tx, cu, limiter, dedup>>
    /\ ~(Len(batch.fileStatuses) > 0 /\ batch.cui # NULL)
    /\ batch.gen < MaxBatches
    /\ \E files \in { f \in Batches : \A i \in DOMAIN f : f[i] \in disk } :
         LET b == [ batch EXCEPT !.gen = @ + 1,
                                 !.showManual = @ \/ GroupOf(files, "manual") # << >> ]
             st == Settle(lfu, b, Statuses(files),
                          IF GroupOf(files, "instant") # << >> \/ GroupOf(files, "medium") # << >>
                          THEN 1 ELSE batch.cui)
         IN  /\ ~st.overflow
             /\ lfu' = st.lfu
             /\ batch' = BatchOf(b, st)
             /\ disk' = disk \ { files[i] : i \in DOMAIN files }
    /\ UNCHANGED <<smart, driveFiles, db, lastConfirm, interrupted, faults>>

\* uploadInstantFile after its fetch, then the queue advance chained to it
InstantResponse ==
    /\ UNCHANGED <<disk, srv, proxy, tx, cu, limiter, dedup>>
    /\ \E req \in batch.instant :
      \E ok \in {TRUE} \cup (IF faults < MaxFaults THEN {FALSE} ELSE {}) :
        LET res == UploadPOST(db, driveFiles, req.size)
            b == [ batch EXCEPT !.instant = @ \ {req} ]
            st == Settle(lfu, b, MapStatus(batch.fileStatuses, req.idx,
                                           IF ok THEN "completed" ELSE "failed"), req.idx + 1)
        IN  /\ ~st.overflow
            /\ lfu' = st.lfu
            /\ batch' = BatchOf(b, st)
            /\ driveFiles' = IF ok THEN res.files ELSE driveFiles
            /\ db' = IF ok THEN res.db ELSE db
            /\ faults' = IF ok THEN faults ELSE faults + 1
            /\ UNCHANGED <<smart, lastConfirm, interrupted>>

(***************************************************************************)
(* The server's routes, one step per await that other requests can         *)
(* interleave with.  Sizes of this section are in KiB: maxFileSize (5 GiB) *)
(* is beyond the integers of the model checker.                            *)
(***************************************************************************)
MaxRequests == 2        \* route handlers in progress at the same time
MaxDriveFiles == 2      \* files of the owner in the storage backend
MaxFolders == 3         \* folders of the owner in the storage backend
MaxRateLog == 2         \* rateLimitLog rows written

MaxFileSizeKiB == 5242880               \* config.drive.maxFileSize / 1024 (5 GiB in KiB)
RateMaxRequests == 20                   \* RATE_LIMITS.upload.maxRequests
SupportedMimeTypes == { "video/mp4", "audio/mpeg" }     \* of config.drive.supportedMimeTypes

Slots == 1..MaxRequests
Names == { 1, 2 }
Mimes == { "video/mp4", "text/plain" }
SizesKiB == { MaxFileSizeKiB, MaxFileSizeKiB + 1 }

\* A route handler: the request it serves, where it stands, what it has
\* answered, and what it has asked of the storage backend and the rate limiter.
IdleReq ==
    [ route |-> "none", pc |-> "idle", file |-> NULL, name |-> NULL, mime |-> "none",
      sizeKiB |-> 0, todo |-> {}, listed |-> {}, gone |-> {}, root |-> NULL, ret |-> NULL,
      status |-> 0, success |-> FALSE, storage |-> FALSE, rateChecked |-> FALSE ]

\* folders: the owner's folder objects in the backend; rootEnv: whether
\* MEDIA_HUB_ROOT_FOLDER_ID is set; rateLog: the rateLimitLog rows of the
\* owner inside the window; trashed: the ids of the owner's files that are in
\* the trash (no listing shows them).  Observation: returned (the folders
\* getUserFolder has answered with), logged (rows written so far).
InitSrv(rootEnv, rows) ==
    [ reqs |-> [ k \in Slots |-> IdleReq ], folders |-> {}, rootEnv |-> rootEnv,
      rateLog |-> rows, returned |-> {}, logged |-> 0, trashed |-> {} ]

\* A new request is served in the first slot in which no handler is running.
Vacant(k) == srv.reqs[k].pc \in { "idle", "done" }
Free(k) == Vacant(k) /\ \A j \in Slots : j < k => ~Vacant(j)

Respond(r, status, success) == [ r EXCEPT !.pc = "done", !.status = status, !.success = success ]

\* prisma.file.create: the unique index rejects a driveFileId already in the table (P2002)
FileCreate(d, rec) ==
    IF HasDriveFileId(d, rec.driveFileId)
    THEN [ ok |-> FALSE, db |-> d ]
    ELSE [ ok |-> TRUE, db |-> Append(d, rec) ]

\* what a query of the table by driveFileId sees (findUnique, dbFileMap.get)
DbFileIds(d) == { d[i].driveFileId : i \in DOMAIN d }

DriveFile(files, id) == CHOOSE f \in files : f.id = id

RecordOf(f, via) ==
    [ driveFileId |-> f.id, name |-> f.name, size |-> f.size, via |-> via, isDeleted |-> FALSE ]

\* A chunked upload of some client completes in the storage backend.
DriveFileAppears ==
    /\ Cardinality(driveFiles) < MaxDriveFiles
    /\ \E name \in Names :
         driveFiles' = driveFiles \cup { [ id |-> NewFileId(driveFiles), name |-> name,
                                           size |-> CHUNK_SIZE \div 1024 ] }
    /\ UNCHANGED <<lfu, smart, batch, db, lastConfirm, interrupted, faults, disk, srv, proxy, tx, cu, limiter, dedup>>

\* POST /api/files/save-metadata up to findUnique: the record is there (answered
\* with it, duplicate: true) or the handler goes on to create it.
SaveMetadataPOST ==
    /\ \E k \in Slots, f \in driveFiles :
         /\ Free(k)
         /\ srv' = [ srv EXCEPT !.reqs[k] =
                       IF f.id \in DbFileIds(db)
                       THEN Respond([ IdleReq EXCEPT !.route = "save-metadata", !.file = f.id ],
                                    200, TRUE)
                       ELSE [ IdleReq EXCEPT !.route = "save-metadata", !.file = f.id,
                                             !.pc = "create" ] ]
    /\ UNCHANGED <<lfu, smart, batch, driveFiles, db, lastConfirm, interrupted, faults, disk, proxy, tx, cu, limiter, dedup>>

\* ... and its prisma.file.create; P2002 is answered with 409
SaveMetadataCreate ==
    /\ \E k \in Slots :
         /\ srv.reqs[k].route = "save-metadata" /\ srv.reqs[k].pc = "create"
         /\ LET res == FileCreate(db, RecordOf(DriveFile(driveFiles, srv.reqs[k].file), "save-metadata"))
            IN  /\ db' = res.db
                /\ srv' = [ srv EXCEPT !.reqs[k] = IF res.ok THEN Respond(@, 200, TRUE)
                                                   ELSE Respond(@, 409, FALSE) ]
    /\ UNCHANGED <<lfu, smart, batch, driveFiles, lastConfirm, interrupted, faults, disk, proxy, tx, cu, limiter, dedup>>

\* The second loop of POST /api/files/sync: the records of the snapshot whose
\* file the listing does not hold are marked deleted
MarkDeleted(d, gone) ==
    [ i \in DOMAIN d |-> IF d[i].driveFileId \in gone /\ ~d[i].isDeleted
                          THEN [ d[i] EXCEPT !.isDeleted = TRUE ]
                          ELSE d[i] ]

\* POST /api/files/sync up to the first create: listFiles (trashed = false),
\* findMany (isDeleted: false), and the listed files without a record in that
\* snapshot.  With nothing to create the handler runs to its end.  Observation:
\* listed and gone stay in the answered request.
SyncPOST ==
    /\ \E k \in Slots :
         /\ Free(k)
         /\ LET listed == { f.id : f \in { g \in driveFiles : g.id \notin srv.trashed } }
                dbFiles == { db[i].driveFileId : i \in { j \in DOMAIN db : ~db[j].isDeleted } }
                r == [ IdleReq EXCEPT !.route = "sync", !.listed = listed,
                                      !.gone = dbFiles \ listed ]
            IN  IF listed \ dbFiles = {}
                THEN /\ db' = MarkDeleted(db, r.gone)
                     /\ srv' = [ srv EXCEPT !.reqs[k] = Respond(r, 200, TRUE) ]
                ELSE /\ db' = db
                     /\ srv' = [ srv EXCEPT !.reqs[k] =
                                   [ r EXCEPT !.pc = "create", !.todo = listed \ dbFiles ] ]
    /\ UNCHANGED <<lfu, smart, batch, driveFiles, lastConfirm, interrupted, faults, disk, proxy, tx, cu, limiter, dedup>>

\* ... one iteration of its loop that adds a file; a rejected create ends the
\* handler through the catch (500); after the last one the second loop runs
SyncCreate ==
    /\ \E k \in Slots :
         /\ srv.reqs[k].route = "sync" /\ srv.reqs[k].pc = "create"
         /\ \E id \in srv.reqs[k].todo :
              LET res == FileCreate(db, RecordOf(DriveFile(driveFiles, id), "sync"))
                  rest == srv.reqs[k].todo \ { id }
              IN  /\ db' = IF res.ok /\ rest = {} THEN MarkDeleted(res.db, srv.reqs[k].gone)
                            ELSE res.db
                  /\ srv' = [ srv EXCEPT !.reqs[k] =
                                IF ~res.ok THEN Respond([ @ EXCEPT !.todo = {} ], 500, FALSE)
                                ELSE IF rest = {} THEN Respond([ @ EXCEPT !.todo = {} ], 200, TRUE)
                                ELSE [ @ EXCEPT !.todo = rest ] ]
    /\ UNCHANGED <<lfu, smart, batch, driveFiles, lastConfirm, interrupted, faults, disk, proxy, tx, cu, limiter, dedup>>

\* DELETE /api/files: updateMany sets isDeleted on the owner's record
FilesDELETE ==
    /\ \E fileId \in DOMAIN db :
         /\ ~db[fileId].isDeleted
         /\ db' = [ db EXCEPT ![fileId].isDeleted = TRUE ]
    /\ UNCHANGED <<lfu, smart, batch, driveFiles, lastConfirm, interrupted, faults, disk, srv, proxy, tx, cu, limiter, dedup>>

\* The owner moves a file of the folder to the trash
DriveFileTrashed ==
    /\ \E f \in driveFiles :
         /\ f.id \notin srv.trashed
         /\ srv' = [ srv EXCEPT !.trashed = @ \cup { f.id } ]
    /\ UNCHANGED <<lfu, smart, batch, driveFiles, db, lastConfirm, interrupted, faults, disk, proxy, tx, cu, limiter, dedup>>

\* POST /api/files/confirm-upload for the session of a finished file
ConfirmRoutePOST ==
    /\ \E f \in driveFiles, probe \in {"id", "noid"} :
       \E pick \in FirstByName(driveFiles, f.name) :
         LET ran == ConfirmPOST(db, driveFiles, f.id, f.name, probe, pick)
         IN  /\ db' = ran.db
             /\ lastConfirm' = AsLastConfirm(ran)
    /\ UNCHANGED <<lfu, smart, batch, driveFiles, interrupted, faults, disk, srv, proxy, tx, cu, limiter, dedup>>

Validate(mime, sizeKiB) == mime \in SupportedMimeTypes /\ sizeKiB <= MaxFileSizeKiB

\* POST /api/files/upload up to the end of the Drive upload: validateMimeType
\* and validateFileSize throw a ValidationError, which the route's catch answers
\* with 500; otherwise begin-upload POST and PUT, and the file is in Drive.
UploadRoutePOST ==
    /\ \E k \in Slots, name \in Names, mime \in Mimes, sizeKiB \in SizesKiB :
         LET r == [ IdleReq EXCEPT !.route = "upload", !.name = name, !.mime = mime,
                                   !.sizeKiB = sizeKiB ]
             id == NewFileId(driveFiles)
         IN  /\ Free(k)
             /\ IF ~Validate(mime, sizeKiB)
                THEN /\ srv' = [ srv EXCEPT !.reqs[k] = Respond(r, 500, FALSE) ]
                     /\ UNCHANGED driveFiles
                ELSE /\ Cardinality(driveFiles) < MaxDriveFiles
                     /\ driveFiles' = driveFiles \cup { [ id |-> id, name |-> name, size |-> sizeKiB ] }
                     /\ srv' = [ srv EXCEPT !.reqs[k] =
                                   [ r EXCEPT !.pc = "record", !.file = id, !.storage = TRUE ] ]
    /\ UNCHANGED <<lfu, smart, batch, db, lastConfirm, interrupted, faults, disk, proxy, tx, cu, limiter, dedup>>

\* ... and its prisma.file.create
UploadRouteRecord ==
    /\ \E k \in Slots :
         /\ srv.reqs[k].route = "upload" /\ srv.reqs[k].pc = "record"
         /\ LET res == FileCreate(db, RecordOf(DriveFile(driveFiles, srv.reqs[k].file), "upload"))
            IN  /\ db' = res.db
                /\ srv' = [ srv EXCEPT !.reqs[k] = IF res.ok THEN Respond(@, 200, TRUE)
                                                   ELSE Respond(@, 500, FALSE) ]
    /\ UNCHANGED <<lfu, smart, batch, driveFiles, lastConfirm, interrupted, faults, disk, proxy, tx, cu, limiter, dedup>>

(***************************************************************************)
(* PUT /api/files/upload-chunk: the proxy between uploadChunk and the      *)
(* storage backend                                                         *)
(***************************************************************************)
\* per upload, the chunks (by their end offset) whose PUT the proxy still has in
\* flight towards the backend although the client's request is gone
InitProxy == [ u \in Ids |-> {} ]

\* The 60 s timer of uploadChunk fires after the proxy has read the chunk and
\* forwarded it: controller.abort() ends the client's fetch (AbortError, handled
\* as any timeout), and the proxy's own fetch, which carries no signal, goes on.
ChunkTimeout ==
    /\ faults < MaxFaults
    /\ \E u \in Ids :
         /\ lfu[u].pc = "sending"
         /\ LET r == uploadChunk(lfu[u], [ kind |-> "timeout", range |-> 0 ])
                res == FailUpload(lfu, u)
            IN  /\ proxy' = [ proxy EXCEPT ![u] = @ \cup { lfu[u].end } ]
                /\ IF r.pc = "throw"
                   THEN /\ ~res.overflow
                        /\ lfu' = [ res.lfu EXCEPT ![u].lastResp = "timeout" ]
                        /\ smart' = res.smart /\ batch' = res.batch
                   ELSE /\ lfu' = [ lfu EXCEPT ![u] = r ]
                        /\ UNCHANGED <<smart, batch>>
    /\ faults' = faults + 1
    /\ UNCHANGED <<driveFiles, db, lastConfirm, interrupted, disk, srv, tx, cu, limiter, dedup>>

\* The backend answers a PUT the proxy still had in flight; nobody waits for the
\* proxy's answer any more.  The last chunk of the file completes the file.
ForwardDone ==
    /\ \E u \in Ids : \E e \in proxy[u] :
         /\ proxy' = [ proxy EXCEPT ![u] = @ \ { e } ]
         /\ driveFiles' = IF e = lfu[u].file
                          THEN driveFiles \cup { [ id |-> u, name |-> lfu[u].file,
                                                   size |-> lfu[u].file ] }
                          ELSE driveFiles
    /\ UNCHANGED <<lfu, smart, batch, db, lastConfirm, interrupted, faults, disk, srv, tx, cu, limiter, dedup>>


(***************************************************************************)
(* uploadChunk called on its own, with the arguments performUpload hands   *)
(* it and with empty ranges (start = end)                                  *)
(***************************************************************************)
IdleTx == [ r |-> IdleLfu, requests |-> 0, before |-> 0 ]

TxTotals == { 2 * CHUNK_SIZE + 1 }
TxStarts == { 0, CHUNK_SIZE, 2 * CHUNK_SIZE }

\* uploadChunk(sessionUri, chunk, start, end, total): the call is entered
TxCall(total, start, end) ==
    [ r |-> [ IdleLfu EXCEPT !.file = total, !.start = start, !.end = end, !.mounted = TRUE,
                             !.sessionUri = 1, !.uploadedBytes = start, !.acked = start,
                             !.pc = "called" ],
      requests |-> 0, before |-> start ]

TxCalls ==
    UNION { { TxCall(total, start, end) : end \in { start, Min(start + CHUNK_SIZE, total) } } :
            total \in TxTotals, start \in TxStarts }

\* contentRange is built and the PUT is issued; nothing looks at the chunk's size
TxFetch ==
    /\ tx.r.pc = "called"
    /\ tx' = [ tx EXCEPT !.r.pc = "sending", !.r.attempts = @ + 1, !.requests = @ + 1 ]
    /\ UNCHANGED <<lfu, smart, batch, driveFiles, db, lastConfirm, interrupted, faults, disk, srv, proxy, cu, limiter, dedup>>

\* the answer and what uploadChunk makes of it
TxResponse ==
    /\ tx.r.pc = "sending"
    /\ \E a \in ChunkAnswers(tx.r) :
         /\ tx' = [ tx EXCEPT !.r = uploadChunk(tx.r, a) ]
         /\ faults' = IF IsFault(tx.r, a) THEN faults + 1 ELSE faults
    /\ UNCHANGED <<lfu, smart, batch, driveFiles, db, lastConfirm, interrupted, disk, srv, proxy, cu, limiter, dedup>>

\* the delay elapsed: uploadChunk(sessionUri, chunk, start, end, total, retryCount + 1)
TxRetry ==
    /\ tx.r.pc = "backoff"
    /\ tx' = [ tx EXCEPT !.r.pc = "called", !.r.retryCount = @ + 1, !.r.delay = 0 ]
    /\ UNCHANGED <<lfu, smart, batch, driveFiles, db, lastConfirm, interrupted, faults, disk, srv, proxy, cu, limiter, dedup>>

(***************************************************************************)
(* The upload entry points: create-upload-session (with getUserFolder),    *)
(* upload-session, create-signed-url                                       *)
(***************************************************************************)
EnvRootId == MaxFolders + 1     \* the folder MEDIA_HUB_ROOT_FOLDER_ID names

Folders(kind, parent) == { f.id : f \in { g \in srv.folders : g.kind = kind /\ g.parent = parent } }

NewFolderId == Cardinality(srv.folders) + 1

\* POST /api/files/create-upload-session up to getOrCreateUserFolder: an
\* unsupported type or a size beyond 5 GB is answered with 400
CreateSessionPOST ==
    /\ \E k \in Slots, mime \in Mimes, sizeKiB \in SizesKiB :
         LET r == [ IdleReq EXCEPT !.route = "create-upload-session", !.mime = mime,
                                   !.sizeKiB = sizeKiB ]
         IN  /\ Free(k)
             /\ srv' = [ srv EXCEPT !.reqs[k] =
                           IF ~Validate(mime, sizeKiB) THEN Respond(r, 400, FALSE)
                           ELSE IF srv.rootEnv THEN [ r EXCEPT !.pc = "userSearch", !.root = EnvRootId ]
                           ELSE [ r EXCEPT !.pc = "rootSearch" ] ]
    /\ UNCHANGED <<lfu, smart, batch, driveFiles, db, lastConfirm, interrupted, faults, disk, proxy, tx, cu, limiter, dedup>>

\* getUserFolder: drive.files.list for the 'Media Hub' folder; files[0] if any
RootSearch ==
    /\ \E k \in Slots :
         /\ srv.reqs[k].pc = "rootSearch"
         /\ IF Folders("root", NULL) = {}
            THEN srv' = [ srv EXCEPT !.reqs[k].pc = "rootCreate", !.reqs[k].storage = TRUE ]
            ELSE \E id \in Folders("root", NULL) :
                   srv' = [ srv EXCEPT !.reqs[k].pc = "userSearch", !.reqs[k].root = id,
                                       !.reqs[k].storage = TRUE ]
    /\ UNCHANGED <<lfu, smart, batch, driveFiles, db, lastConfirm, interrupted, faults, disk, proxy, tx, cu, limiter, dedup>>

\* getUserFolder: drive.files.create of the root folder
RootCreate ==
    /\ Cardinality(srv.folders) < MaxFolders
    /\ \E k \in Slots :
         /\ srv.reqs[k].pc = "rootCreate"
         /\ srv' = [ srv EXCEPT !.folders = @ \cup { [ id |-> NewFolderId, kind |-> "root",
                                                       parent |-> NULL ] },
                                !.reqs[k].pc = "userSearch", !.reqs[k].root = NewFolderId,
                                !.reqs[k].storage = TRUE ]
    /\ UNCHANGED <<lfu, smart, batch, driveFiles, db, lastConfirm, interrupted, faults, disk, proxy, tx, cu, limiter, dedup>>

\* getUserFolder: drive.files.list for the user's folder under the root; files[0] if any
UserSearch ==
    /\ \E k \in Slots :
         /\ srv.reqs[k].pc = "userSearch"
         /\ IF Folders("user", srv.reqs[k].root) = {}
            THEN srv' = [ srv EXCEPT !.reqs[k].pc = "userCreate", !.reqs[k].storage = TRUE ]
            ELSE \E id \in Folders("user", srv.reqs[k].root) :
                   srv' = [ srv EXCEPT !.reqs[k].pc = "begin", !.reqs[k].ret = id,
                                       !.reqs[k].storage = TRUE,
                                       !.returned = @ \cup { id } ]
    /\ UNCHANGED <<lfu, smart, batch, driveFiles, db, lastConfirm, interrupted, faults, disk, proxy, tx, cu, limiter, dedup>>

\* getUserFolder: drive.files.create of the user's folder and of its Incoming
\* and Processed subfolders
UserCreate ==
    /\ Cardinality(srv.folders) < MaxFolders
    /\ \E k \in Slots :
         /\ srv.reqs[k].pc = "userCreate"
         /\ srv' = [ srv EXCEPT !.folders = @ \cup { [ id |-> NewFolderId, kind |-> "user",
                                                       parent |-> srv.reqs[k].root ] },
                                !.reqs[k].pc = "begin", !.reqs[k].ret = NewFolderId,
                                !.reqs[k].storage = TRUE,
                                !.returned = @ \cup { NewFolderId } ]
    /\ UNCHANGED <<lfu, smart, batch, driveFiles, db, lastConfirm, interrupted, faults, disk, proxy, tx, cu, limiter, dedup>>

\* the begin-upload POST (uploadType=resumable) of create-upload-session and of
\* upload-session, and the route's answer
BeginUpload ==
    /\ \E k \in Slots, ok \in BOOLEAN :
         /\ srv.reqs[k].pc = "begin"
         /\ srv' = [ srv EXCEPT !.reqs[k] =
                       Respond([ @ EXCEPT !.storage = TRUE, !.root = NULL, !.ret = NULL ],
                               IF ok THEN 200 ELSE 500, ok) ]
    /\ UNCHANGED <<lfu, smart, batch, driveFiles, db, lastConfirm, interrupted, faults, disk, proxy, tx, cu, limiter, dedup>>

\* prisma.file.findFirst of upload-session: a record of this name and size
\* created in the last 10 minutes
RecentFile(d, name, sizeKiB) == \E i \in DOMAIN d : d[i].name = name /\ d[i].size = sizeKiB

\* POST /api/files/upload-session up to the begin-upload POST: the
\* recent-duplicate answer comes first, then the type and size checks
UploadSessionPOST ==
    /\ \E k \in Slots, name \in Names, mime \in Mimes, sizeKiB \in SizesKiB :
         LET r == [ IdleReq EXCEPT !.route = "upload-session", !.name = name, !.mime = mime,
                                   !.sizeKiB = sizeKiB ]
         IN  /\ Free(k)
             /\ srv' = [ srv EXCEPT !.reqs[k] =
                           IF RecentFile(db, name, sizeKiB) THEN Respond(r, 200, TRUE)
                           ELSE IF mime \notin SupportedMimeTypes THEN Respond(r, 400, FALSE)
                           ELSE IF sizeKiB > MaxFileSizeKiB THEN Respond(r, 400, FALSE)
                           ELSE [ r EXCEPT !.pc = "begin" ] ]
    /\ UNCHANGED <<lfu, smart, batch, driveFiles, db, lastConfirm, interrupted, faults, disk, proxy, tx, cu, limiter, dedup>>

\* checkRateLimit(userId, 'upload'): denied at maxRequests rows in the window,
\* otherwise a row is written; an error of the query allows the request
checkRateLimit(rows, dbError) ==
    IF dbError THEN [ allowed |-> TRUE, rows |-> rows ]
    ELSE IF rows >= RateMaxRequests THEN [ allowed |-> FALSE, rows |-> rows ]
    ELSE [ allowed |-> TRUE, rows |-> rows + 1 ]

\* POST /api/files/create-signed-url
SignedUrlPOST ==
    /\ srv.logged < MaxRateLog
    /\ \E k \in Slots, mime \in Mimes, sizeKiB \in SizesKiB,
          dbError \in BOOLEAN :
         LET r == [ IdleReq EXCEPT !.route = "create-signed-url", !.mime = mime,
                                   !.sizeKiB = sizeKiB, !.rateChecked = TRUE ]
             rl == checkRateLimit(srv.rateLog, dbError)
         IN  /\ Free(k)
             /\ srv' = [ srv EXCEPT !.rateLog = rl.rows,
                                    !.logged = IF rl.rows # srv.rateLog THEN @ + 1 ELSE @,
                                    !.reqs[k] =
                           IF ~rl.allowed THEN Respond(r, 429, FALSE)
                           ELSE IF ~Validate(mime, sizeKiB) THEN Respond(r, 400, FALSE)
                           ELSE Respond([ r EXCEPT !.storage = TRUE ], 200, TRUE) ]
    /\ UNCHANGED <<lfu, smart, batch, driveFiles, db, lastConfirm, interrupted, faults, disk, proxy, tx, cu, limiter, dedup>>

(***************************************************************************)
(* ClientUpload with PUT /api/files/upload-stream and save-metadata        *)
(***************************************************************************)
ClientChunk == 268435456        \* 256 * 1024 * 1024
ClientRetries == 3              \* retryWithBackoff(fn, 3, 2000)
MaxMounts == 2                  \* mounts of ClientUpload
ClientFiles == { ClientChunk + 1 }      \* two chunks

\* controller: abortControllerRef.current (none = null); inProgress:
\* uploadInProgressRef; stored: the sessionStorage entry of the file;
\* forwards: chunks (by end offset) whose PUT the proxy has in flight towards
\* the backend while the client's request is gone.
\* Observation: cancelled (the caller cancelled or unmounted the upload), and
\* what happened after that: lateChunks (chunks stored by the backend),
\* lateCallbacks (onUploadComplete calls), lateRecords (File records created).
IdleCu ==
    [ file |-> 0, mounted |-> FALSE, mounts |-> 0, pc |-> "idle", controller |-> "none",
      inProgress |-> FALSE, uploadedBytes |-> 0, chunkEnd |-> 0, attempt |-> 0,
      forwards |-> {}, stored |-> FALSE, fileId |-> NULL,
      cancelled |-> FALSE, lateChunks |-> 0, lateCallbacks |-> 0, lateRecords |-> 0,
      onUploadComplete |-> 0, onError |-> 0 ]

\* finally of uploadToGoogleDrive
CuFinally(c, pc) ==
    [ c EXCEPT !.pc = pc, !.inProgress = FALSE, !.controller = "none",
               !.uploadedBytes = 0, !.chunkEnd = 0, !.attempt = 0 ]

\* catch of uploadToGoogleDrive: sessionStorage.removeItem, onError
CuFail(c) == CuFinally([ c EXCEPT !.stored = FALSE, !.onError = @ + 1 ], "failed")

\* onUploadComplete(fileData) after the sessionStorage entry was written
CuComplete(c) ==
    CuFinally([ c EXCEPT !.stored = TRUE, !.onUploadComplete = @ + 1,
                         !.lateCallbacks = IF c.cancelled THEN @ + 1 ELSE @ ], "done")

\* Head of the while loop with uploadedBytes = bytes
CuLoop(c, bytes) ==
    IF bytes < c.file
    THEN IF c.controller = "aborted"
         THEN CuFail(c)
         ELSE [ c EXCEPT !.uploadedBytes = bytes, !.chunkEnd = Min(bytes + ClientChunk, c.file),
                         !.attempt = 1, !.pc = "sending" ]
    ELSE CuFinally(c, "exited")

\* The fetch in flight is rejected (AbortError, or the signal was aborted before):
\* retryWithBackoff retries whatever was thrown
CuRejected(c) ==
    IF c.attempt = ClientRetries THEN CuFail(c) ELSE [ c EXCEPT !.pc = "backoff" ]

\* abortControllerRef.current.abort() while the chunk PUT is in flight: the
\* client's fetch is rejected; if the proxy has forwarded the chunk, its own
\* fetch (no signal) goes on.
CuAbort(c, forwarded) ==
    IF c.pc = "sending"
    THEN [ CuRejected([ c EXCEPT !.controller = "aborted" ]) EXCEPT
             !.forwards = IF forwarded THEN c.forwards \cup { c.chunkEnd } ELSE c.forwards ]
    ELSE [ c EXCEPT !.controller = "aborted" ]

\* The component is rendered with a file: the mount effect.  fresh: the
\* sessionStorage entry is younger than 5 minutes.  (The observation starts anew
\* with a mount, after the requests of the upload before it have ended.)
CuMount ==
    /\ ~cu.mounted /\ cu.pc \in { "idle", "done", "failed", "exited" } /\ cu.mounts < MaxMounts
    /\ cu.forwards = {}
    /\ \E file \in ClientFiles, fresh \in BOOLEAN :
         LET c == [ cu EXCEPT !.file = file, !.mounted = TRUE, !.mounts = @ + 1,
                              !.cancelled = FALSE, !.lateChunks = 0, !.lateCallbacks = 0,
                              !.lateRecords = 0, !.onUploadComplete = 0, !.onError = 0,
                              !.stored = IF file = cu.file THEN cu.stored ELSE FALSE ]
         IN  /\ cu' = IF c.stored /\ fresh
                      THEN [ c EXCEPT !.onUploadComplete = @ + 1 ]
                      ELSE [ c EXCEPT !.inProgress = TRUE, !.pc = "session" ]
    /\ UNCHANGED <<lfu, smart, batch, driveFiles, db, lastConfirm, interrupted, faults, disk, srv,
                   proxy, tx, limiter, dedup>>

\* POST /api/files/upload-session answered: a duplicate of a recent record, a
\* session (the AbortController is created now), or an error
CuSessionResponse ==
    /\ cu.pc = "session"
    /\ \E ans \in {"session"} \cup (IF \E i \in DOMAIN db : db[i].name = cu.file
                                   THEN {"duplicate"} ELSE {})
                              \cup (IF faults < MaxFaults THEN {"error"} ELSE {}) :
         /\ cu' = CASE ans = "session" -> CuLoop([ cu EXCEPT !.controller = "live" ], 0)
                    [] ans = "duplicate" -> CuComplete(cu)
                    [] OTHER -> CuFail(cu)
         /\ faults' = IF ans = "error" THEN faults + 1 ELSE faults
    /\ UNCHANGED <<lfu, smart, batch, driveFiles, db, lastConfirm, interrupted, disk, srv, proxy, tx, limiter, dedup>>

\* The component is unmounted: the effect's cleanup
CuUnmount ==
    /\ cu.mounted
    /\ \E forwarded \in BOOLEAN :
         LET c == [ cu EXCEPT !.mounted = FALSE,
                              !.cancelled = @ \/ cu.pc \in { "session", "sending", "backoff", "saving" } ]
         IN  /\ forwarded => cu.pc = "sending" /\ cu.controller = "live"
             /\ cu' = IF c.controller # "none" /\ c.inProgress
                      THEN [ CuAbort(c, forwarded) EXCEPT !.inProgress = FALSE ]
                      ELSE c
    /\ UNCHANGED <<lfu, smart, batch, driveFiles, db, lastConfirm, interrupted, faults, disk, srv,
                   proxy, tx, limiter, dedup>>

\* cancelUpload: the Cancel button, shown while uploading
CuCancel ==
    /\ cu.mounted /\ cu.pc \in { "session", "sending", "backoff", "saving" }
    /\ cu.controller = "live"
    /\ \E forwarded \in BOOLEAN :
         /\ forwarded => cu.pc = "sending"
         /\ cu' = CuAbort([ cu EXCEPT !.cancelled = TRUE ], forwarded)
    /\ UNCHANGED <<lfu, smart, batch, driveFiles, db, lastConfirm, interrupted, faults, disk, srv,
                   proxy, tx, limiter, dedup>>

\* The proxy's answer to the chunk PUT the client waits for
CuChunkResponse ==
    /\ cu.pc = "sending"
    /\ \E ans \in {"stored"} \cup (IF faults < MaxFaults THEN {"e5xx", "e4xx"} ELSE {}) :
         LET id == NewFileId(driveFiles)
             late == [ cu EXCEPT !.lateChunks = IF cu.cancelled THEN @ + 1 ELSE @ ]
         IN  /\ cu' = CASE ans = "stored" /\ cu.chunkEnd = cu.file ->
                             [ late EXCEPT !.pc = "saving", !.fileId = id ]
                        [] ans = "stored" /\ cu.chunkEnd # cu.file -> CuLoop(late, cu.chunkEnd)
                        [] ans = "e5xx" -> CuRejected(cu)
                        [] OTHER -> CuFail(cu)
             /\ driveFiles' = IF ans = "stored" /\ cu.chunkEnd = cu.file
                              THEN driveFiles \cup { [ id |-> id, name |-> cu.file, size |-> cu.file ] }
                              ELSE driveFiles
             /\ faults' = IF ans = "stored" THEN faults ELSE faults + 1
    /\ UNCHANGED <<lfu, smart, batch, db, lastConfirm, interrupted, disk, srv, proxy, tx, limiter, dedup>>

\* The delay of retryWithBackoff elapsed: the next attempt; a fetch with an
\* aborted signal is rejected at once
CuRetry ==
    /\ cu.pc = "backoff"
    /\ cu' = IF cu.controller = "aborted"
             THEN CuRejected([ cu EXCEPT !.attempt = @ + 1 ])
             ELSE [ cu EXCEPT !.attempt = @ + 1, !.pc = "sending" ]
    /\ UNCHANGED <<lfu, smart, batch, driveFiles, db, lastConfirm, interrupted, faults, disk, srv,
                   proxy, tx, limiter, dedup>>

\* The backend answers a PUT the proxy still had in flight for an aborted request
CuForwardDone ==
    /\ \E e \in cu.forwards :
         /\ cu' = [ cu EXCEPT !.forwards = @ \ { e }, !.lateChunks = @ + 1 ]
         /\ driveFiles' = IF e = cu.file
                          THEN driveFiles \cup { [ id |-> NewFileId(driveFiles), name |-> cu.file,
                                                   size |-> cu.file ] }
                          ELSE driveFiles
    /\ UNCHANGED <<lfu, smart, batch, db, lastConfirm, interrupted, faults, disk, srv, proxy, tx, limiter, dedup>>

\* POST /api/files/save-metadata (sent without a signal) answered; a failure is
\* only logged
CuSaveResponse ==
    /\ cu.pc = "saving"
    /\ \E ok \in {TRUE} \cup (IF faults < MaxFaults THEN {FALSE} ELSE {}) :
         LET res == IF ok /\ cu.fileId \notin DbFileIds(db)
                    THEN FileCreate(db, RecordOf(DriveFile(driveFiles, cu.fileId), "save-metadata"))
                    ELSE [ ok |-> FALSE, db |-> db ]
         IN  /\ db' = res.db
             /\ cu' = CuComplete([ cu EXCEPT !.lateRecords = IF cu.cancelled /\ res.ok
                                                            THEN @ + 1 ELSE @ ])
             /\ faults' = IF ok THEN faults ELSE faults + 1
    /\ UNCHANGED <<lfu, smart, batch, driveFiles, lastConfirm, interrupted, disk, srv, proxy, tx, limiter, dedup>>

(***************************************************************************)
(* The upload rate limiters of one owner                                   *)
(*                                                                         *)
(* checkRateLimit exists twice: lib/middleware/rate-limit.ts keeps its     *)
(* requests in the rateLimitLog table, app/api/files/route.ts in a Map in  *)
(* memory.  Both are modelled against the same clock.  Times are in ms,    *)
(* byte counts in KiB (two windows of bytes are beyond the integers of the *)
(* model checker).                                                         *)
(***************************************************************************)
MaxRateCalls == 3       \* calls of checkRateLimit
MaxRateTicks == 3       \* clock ticks

RateWindowMs == 3600000                 \* RATE_LIMITS.upload.windowMs (1 hour)
RateMaxKiB == 1048576                   \* RATE_LIMITS.upload.maxBytes / 1024 (1 GiB in KiB)
TickMs == 1800000                       \* the clock advances by half a window

RequestKiB == { 0, RateMaxKiB \div 2, RateMaxKiB + 1 }

RECURSIVE SumBytes(_)
\* recentActivity.reduce((sum, log) => sum + (log.bytes || 0), 0)
SumBytes(rows) ==
    IF rows = << >> THEN 0 ELSE Head(rows).bytes + SumBytes(Tail(rows))

NoUserData == [ present |-> FALSE, requests |-> << >>, bytes |-> 0 ]
\* now: the clock; log: the owner's rateLimitLog rows of type 'upload';
\* store: the owner's entry of rateLimitStore; last: the latest call of
\* checkRateLimit; allowedReqs: every request either limiter has allowed
IdleLimiter ==
    [ now |-> 0, log |-> << >>, store |-> NoUserData,
      last |-> [ impl |-> "none", at |-> 0, seen |-> 0, allowed |-> FALSE, requestCount |-> 0,
                 bytesUsed |-> 0, bytesRequested |-> 0, recorded |-> FALSE ],
      allowedReqs |-> << >>, calls |-> 0 ]

\* rate-limit.ts: the rows of the window are summed; a denial needs the oldest
\* row of the window (a TypeError when the window is empty); whatever is thrown
\* inside the try block allows the request
checkRateLimitDb(log, now, bytesRequested, dbError) ==
    LET windowStart == now - RateWindowMs
        recentActivity == SelectSeq(log, LAMBDA row : row.createdAt >= windowStart)
        requestCount == Len(recentActivity)
        bytesUsed == SumBytes(recentActivity)
        denied == [ allowed |-> FALSE, requestCount |-> requestCount,
                    bytesUsed |-> bytesUsed, log |-> log ]
    IN  IF dbError THEN [ denied EXCEPT !.allowed = TRUE ]
        ELSE IF requestCount >= RateMaxRequests THEN denied
        ELSE IF bytesUsed + bytesRequested > RateMaxKiB
             THEN [ denied EXCEPT !.allowed = (recentActivity = << >>) ]
        ELSE [ denied EXCEPT
                 !.allowed = TRUE,
                 !.log = Append(SelectSeq(log, LAMBDA row : ~(row.createdAt < windowStart)),
                                [ createdAt |-> now, bytes |-> bytesRequested ]) ]

\* cleanupOldEntries of app/api/files/route.ts, for the owner's key
cleanupOldEntries(store, now) ==
    LET requests == SelectSeq(store.requests, LAMBDA date : date > now - RateWindowMs)
    IN  IF ~store.present THEN store
        ELSE IF requests = << >> THEN NoUserData
        ELSE [ store EXCEPT !.requests = requests ]

\* app/api/files/route.ts: the requests are filtered by the window, the byte
\* total of the entry is only ever added to
checkRateLimitMem(store, now, bytesRequested, cleanup) ==
    LET windowStart == now - RateWindowMs
        userData == [ present |-> TRUE,
                      requests |-> SelectSeq(store.requests, LAMBDA date : date > windowStart),
                      bytes |-> store.bytes ]
        requestCount == Len(userData.requests)
        denied == [ allowed |-> FALSE, requestCount |-> requestCount,
                    bytesUsed |-> userData.bytes, store |-> userData ]
        pushed == [ userData EXCEPT !.requests = Append(@, now), !.bytes = @ + bytesRequested ]
    IN  IF requestCount >= RateMaxRequests THEN denied
        ELSE IF userData.bytes + bytesRequested > RateMaxKiB THEN denied
        ELSE [ denied EXCEPT
                 !.allowed = TRUE,
                 !.store = IF cleanup THEN cleanupOldEntries(pushed, now) ELSE pushed ]

\* A call of the database-backed checkRateLimit(userId, 'upload', bytesRequested)
RateCheckDb ==
    /\ limiter.calls < MaxRateCalls
    /\ \E bytesRequested \in RequestKiB, dbError \in BOOLEAN :
         LET res == checkRateLimitDb(limiter.log, limiter.now, bytesRequested, dbError)
         IN  limiter' = [ limiter EXCEPT
                 !.calls = @ + 1,
                 !.log = res.log,
                 !.allowedReqs =
                     IF res.allowed
                     THEN Append(@, [ impl |-> "db", at |-> limiter.now, bytes |-> bytesRequested ])
                     ELSE @,
                 !.last = [ impl |-> "db", at |-> limiter.now, seen |-> Len(limiter.allowedReqs),
                            allowed |-> res.allowed, requestCount |-> res.requestCount,
                            bytesUsed |-> res.bytesUsed, bytesRequested |-> bytesRequested,
                            recorded |-> res.log # limiter.log ] ]
    /\ UNCHANGED <<lfu, smart, batch, driveFiles, db, lastConfirm, interrupted, faults, disk, srv, proxy, tx, cu, dedup>>

\* A call of the in-memory checkRateLimit(userId, 'upload', bytesRequested)
RateCheckMem ==
    /\ limiter.calls < MaxRateCalls
    /\ \E bytesRequested \in RequestKiB, cleanup \in BOOLEAN :
         LET res == checkRateLimitMem(limiter.store, limiter.now, bytesRequested, cleanup)
         IN  limiter' = [ limiter EXCEPT
                 !.calls = @ + 1,
                 !.store = res.store,
                 !.allowedReqs =
                     IF res.allowed
                     THEN Append(@, [ impl |-> "mem", at |-> limiter.now, bytes |-> bytesRequested ])
                     ELSE @,
                 !.last = [ impl |-> "mem", at |-> limiter.now, seen |-> Len(limiter.allowedReqs),
                            allowed |-> res.allowed, requestCount |-> res.requestCount,
                            bytesUsed |-> res.bytesUsed, bytesRequested |-> bytesRequested,
                            recorded |-> Len(res.store.requests) > res.requestCount ] ]
    /\ UNCHANGED <<lfu, smart, batch, driveFiles, db, lastConfirm, interrupted, faults, disk, srv, proxy, tx, cu, dedup>>

\* cleanupOldEntries run by the allowed request of another owner
RateCleanup ==
    /\ limiter.store.present
    /\ limiter' = [ limiter EXCEPT !.store = cleanupOldEntries(@, limiter.now) ]
    /\ limiter' # limiter
    /\ UNCHANGED <<lfu, smart, batch, driveFiles, db, lastConfirm, interrupted, faults, disk, srv, proxy, tx, cu, dedup>>

\* Time passes
RateTick ==
    /\ limiter.now < MaxRateTicks * TickMs
    /\ limiter' = [ limiter EXCEPT !.now = @ + TickMs ]
    /\ UNCHANGED <<lfu, smart, batch, driveFiles, db, lastConfirm, interrupted, faults, disk, srv, proxy, tx, cu, dedup>>

\* The limiters after n requests of no bytes were allowed by each at time 0
Busy(n) ==
    [ IdleLimiter EXCEPT
        !.log = [ i \in 1..n |-> [ createdAt |-> 0, bytes |-> 0 ] ],
        !.store = [ present |-> n > 0, requests |-> [ i \in 1..n |-> 0 ], bytes |-> 0 ],
        !.allowedReqs = [ i \in 1..n |-> [ impl |-> "db", at |-> 0, bytes |-> 0 ] ]
                        \o [ i \in 1..n |-> [ impl |-> "mem", at |-> 0, bytes |-> 0 ] ] ]

(***************************************************************************)
(* dedupedFetch: the request cache, for one key                            *)
(*                                                                         *)
(* Every call uses the default ttl.  Times are in ms.                      *)
(***************************************************************************)
MaxDedupFetches == 3    \* invocations of the fetcher
MaxDedupTicks == 4      \* clock ticks

CACHE_TTL == 1000
ExpiredAfter == 30000                   \* cleanupExpiredEntries drops entries older than this
DedupTickMs == 500                      \* the clock advances by half a ttl

Fetches == 1..MaxDedupFetches

NoEntry == [ present |-> FALSE, request |-> 0, timestamp |-> 0 ]
NoFetch == [ state |-> "none", start |-> 0, timer |-> FALSE, due |-> 0 ]

\* now: the clock; cache: requestCache.get(key); requests: the promises the
\* fetcher has returned, each with the timer its finally handler has set;
\* last: the latest call of dedupedFetch
IdleDedup ==
    [ now |-> 0, cache |-> NoEntry, requests |-> [ i \in Fetches |-> NoFetch ],
      fetches |-> 0,
      last |-> [ called |-> FALSE, force |-> FALSE, invoked |-> FALSE, recent |-> FALSE,
                 inFlight |-> FALSE, request |-> 0 ] ]

cleanupExpiredEntries(cache, now) ==
    IF cache.present /\ now - cache.timestamp > ExpiredAfter THEN NoEntry ELSE cache

\* dedupedFetch(key, fetcher, { force })
DedupedFetch ==
    /\ \E force \in BOOLEAN :
         LET now == dedup.now
             cleaned == cleanupExpiredEntries(dedup.cache, now)
             cached == IF force THEN NoEntry ELSE cleaned
             hit == cached.present /\ now - cached.timestamp < CACHE_TTL
             started(i) == /\ dedup.requests[i].state # "none"
                           /\ now - dedup.requests[i].start < CACHE_TTL
             call == [ called |-> TRUE, force |-> force, invoked |-> ~hit,
                       recent |-> \E i \in Fetches : started(i),
                       inFlight |-> \E i \in Fetches :
                                       started(i) /\ dedup.requests[i].state = "pending",
                       request |-> IF hit THEN cached.request ELSE dedup.fetches + 1 ]
         IN  \/ /\ hit
                /\ dedup' = [ dedup EXCEPT !.cache = cached, !.last = call ]
             \/ /\ ~hit
                /\ dedup.fetches < MaxDedupFetches
                /\ dedup' = [ dedup EXCEPT
                       !.fetches = @ + 1,
                       !.requests[dedup.fetches + 1] = [ NoFetch EXCEPT !.state = "pending",
                                                                        !.start = now ],
                       !.cache = [ present |-> TRUE, request |-> dedup.fetches + 1,
                                   timestamp |-> now ],
                       !.last = call ]
    /\ UNCHANGED <<lfu, smart, batch, driveFiles, db, lastConfirm, interrupted, faults, disk, srv, proxy, tx, cu, limiter>>

\* The fetcher's promise settles: .then / .catch (the key is removed when the
\* request failed), then .finally sets the timer
FetchSettles ==
    \E i \in Fetches, ok \in BOOLEAN :
      /\ dedup.requests[i].state = "pending"
      /\ dedup' = [ dedup EXCEPT
             !.requests[i] = [ @ EXCEPT !.state = IF ok THEN "resolved" ELSE "rejected",
                                        !.timer = TRUE,
                                        !.due = dedup.now + CACHE_TTL ],
             !.cache = IF ok THEN @ ELSE NoEntry ]
      /\ UNCHANGED <<lfu, smart, batch, driveFiles, db, lastConfirm, interrupted, faults, disk, srv, proxy, tx, cu, limiter>>

\* The timer of a settled request fires: requestCache.delete(key)
DedupTimer ==
    \E i \in Fetches :
      /\ dedup.requests[i].timer
      /\ dedup.now >= dedup.requests[i].due
      /\ dedup' = [ dedup EXCEPT !.requests[i].timer = FALSE, !.cache = NoEntry ]
      /\ UNCHANGED <<lfu, smart, batch, driveFiles, db, lastConfirm, interrupted, faults, disk, srv, proxy, tx, cu, limiter>>

\* Time passes; a timer that is due fires first
DedupTick ==
    /\ dedup.now < MaxDedupTicks * DedupTickMs
    /\ \A i \in Fetches : dedup.requests[i].timer => dedup.requests[i].due > dedup.now
    /\ dedup' = [ dedup EXCEPT !.now = @ + DedupTickMs ]
    /\ UNCHANGED <<lfu, smart, batch, driveFiles, db, lastConfirm, interrupted, faults, disk, srv, proxy, tx, cu, limiter>>

(***************************************************************************)
(* Specifications                                                          *)
(***************************************************************************)
Start ==
    /\ lfu = [ u \in Ids |-> IdleLfu ]
    /\ smart = InitSmart
    /\ batch = InitBatch
    /\ driveFiles = {}
    /\ db = << >>
    /\ lastConfirm = NoConfirm
    /\ interrupted = [ file |-> 0, at |-> 0 ]
    /\ faults = 0
    /\ proxy = InitProxy

UploadInit == Start /\ disk \in UploadDisks /\ srv = InitSrv(FALSE, 0) /\ tx = IdleTx /\ cu = IdleCu /\ limiter = IdleLimiter /\ dedup = IdleDedup
BatchInit == Start /\ disk \in BatchDisks /\ srv = InitSrv(FALSE, 0) /\ tx = IdleTx /\ cu = IdleCu /\ limiter = IdleLimiter /\ dedup = IdleDedup
RecordsInit == Start /\ disk = {} /\ srv = InitSrv(FALSE, 0) /\ tx = IdleTx /\ cu = IdleCu /\ limiter = IdleLimiter /\ dedup = IdleDedup
TransmitInit == Start /\ disk = {} /\ srv = InitSrv(FALSE, 0) /\ tx \in TxCalls /\ cu = IdleCu /\ limiter = IdleLimiter /\ dedup = IdleDedup

SessionInit ==
    /\ Start /\ disk = {} /\ tx = IdleTx /\ cu = IdleCu /\ limiter = IdleLimiter /\ dedup = IdleDedup
    /\ srv \in { InitSrv(FALSE, 0), InitSrv(TRUE, RateMaxRequests - 1) }

\* The upload entry points of the server
NextSession ==
    \/ CreateSessionPOST
    \/ RootSearch
    \/ RootCreate
    \/ UserSearch
    \/ UserCreate
    \/ BeginUpload
    \/ UploadSessionPOST
    \/ SignedUrlPOST
    \/ UploadRoutePOST
    \/ UploadRouteRecord

SpecSession == SessionInit /\ [][NextSession]_vars

ProxyInit == Start /\ disk = { 2 * CHUNK_SIZE + 1 } /\ srv = InitSrv(FALSE, 0) /\ tx = IdleTx /\ cu = IdleCu /\ limiter = IdleLimiter /\ dedup = IdleDedup

\* One LargeFileUpload of SmartFileUpload sending its chunks through the proxy
NextProxy ==
    \/ SmartHandleFiles
    \/ SessionResponse
    \/ ChunkResponse
    \/ ChunkTimeout
    \/ ForwardDone
    \/ Retry
    \/ NextChunk
    \/ ConfirmStep

SpecProxy == ProxyInit /\ [][NextProxy]_vars

ClientInit == Start /\ disk = {} /\ srv = InitSrv(FALSE, 0) /\ tx = IdleTx /\ cu = IdleCu /\ limiter = IdleLimiter /\ dedup = IdleDedup

\* ClientUpload, its proxy route and save-metadata
NextClient ==
    \/ CuMount
    \/ CuSessionResponse
    \/ CuUnmount
    \/ CuCancel
    \/ CuChunkResponse
    \/ CuRetry
    \/ CuForwardDone
    \/ CuSaveResponse

SpecClient == ClientInit /\ [][NextClient]_vars

RateInit ==
    /\ Start /\ disk = {} /\ srv = InitSrv(FALSE, 0) /\ tx = IdleTx /\ cu = IdleCu
    /\ limiter \in { Busy(0), Busy(RateMaxRequests - 1) }
    /\ dedup = IdleDedup

\* Both versions of checkRateLimit, called for one owner as time passes
NextRate ==
    \/ RateCheckDb
    \/ RateCheckMem
    \/ RateCleanup
    \/ RateTick

SpecRate == RateInit /\ [][NextRate]_vars

DedupInit ==
    /\ Start /\ disk = {} /\ srv = InitSrv(FALSE, 0) /\ tx = IdleTx /\ cu = IdleCu
    /\ limiter = IdleLimiter
    /\ dedup = IdleDedup

\* dedupedFetch called for one key as its requests settle and time passes
NextDedup ==
    \/ DedupedFetch
    \/ FetchSettles
    \/ DedupTimer
    \/ DedupTick

SpecDedup == DedupInit /\ [][NextDedup]_vars

\* uploadChunk on its own
NextTransmit ==
    \/ TxFetch
    \/ TxResponse
    \/ TxRetry

SpecTransmit == TransmitInit /\ [][NextTransmit]_vars

\* The routes that write File records, and the files arriving in the backend
NextRecords ==
    \/ DriveFileAppears
    \/ SaveMetadataPOST
    \/ SaveMetadataCreate
    \/ SyncPOST
    \/ SyncCreate
    \/ ConfirmRoutePOST
    \/ UploadRoutePOST
    \/ UploadRouteRecord

SpecRecords == RecordsInit /\ [][NextRecords]_vars

\* POST /api/files/sync against files that come and go and records that the
\* owner removes
NextSync ==
    \/ DriveFileAppears
    \/ DriveFileTrashed
    \/ FilesDELETE
    \/ SyncPOST
    \/ SyncCreate

SpecSync == RecordsInit /\ [][NextSync]_vars


\* SmartFileUpload with its LargeFileUpload, the routes behind them, page reloads
NextUpload ==
    \/ SmartHandleFiles
    \/ SmartServerResponse
    \/ SessionResponse
    \/ ChunkResponse
    \/ Retry
    \/ NextChunk
    \/ ConfirmStep
    \/ ClientConfirm
    \/ Reload

SpecUpload == UploadInit /\ [][NextUpload]_vars

\* BatchUpload with the LargeFileUploads it mounts and its single-request uploads
NextBatch ==
    \/ BatchHandleFiles
    \/ InstantResponse
    \/ SessionResponse
    \/ ChunkResponse
    \/ Retry
    \/ NextChunk
    \/ ConfirmStep

SpecBatch == BatchInit /\ [][NextBatch]_vars

\* An upload of the batch that has been started and has not yet called back
CallbackPending(u) == lfu[u].pc \in {"session", "sending", "backoff", "returned", "confirming"}

AnyPending == batch.instant # {} \/ \E u \in Ids : CallbackPending(u)

\* The steps the browser and the network take on their own: an answer arrives,
\* a timer fires, the loop goes on
Calls == InstantResponse \/ SessionResponse \/ ChunkResponse \/ Retry \/ NextChunk \/ ConfirmStep

\* Every pending fetch is answered (or times out) and every timer fires: weak
\* fairness of Calls, written with AnyPending for ENABLED <<Calls>>_vars.
SpecBatchFair ==
    BatchInit /\ [][NextBatch]_vars /\ ([]<>(~AnyPending) \/ []<><<Calls>>_vars)

(***************************************************************************)
(* Properties                                                              *)
(***************************************************************************)
ChunkErrors == {"e4xx", "e5xx", "timeout"}

\* C1: confirming an upload whose backend file is already recorded succeeds and
\* returns the existing record; no second record is created.
C1_ConfirmIdempotent ==
    /\ lastConfirm.called /\ lastConfirm.existed
         => /\ lastConfirm.ok
            /\ lastConfirm.recId \in DOMAIN db
            /\ db[lastConfirm.recId].driveFileId = lastConfirm.fileId
    /\ \A i, j \in DOMAIN db : db[i].driveFileId = db[j].driveFileId => i = j

\* C2: the uploadedBytes of a mounted LargeFileUpload never decreases, whatever
\* range a 308 answer acknowledges.
C2_UploadedBytesMonotone ==
    [][ \A u \in Ids : lfu[u].mounted /\ lfu'[u].mounted
                         => lfu'[u].uploadedBytes >= lfu[u].uploadedBytes ]_vars

\* C3: neither uploadedBytes nor the start of the chunk being sent is ever
\* beyond the offset the backend acknowledged last.
C3_OnlyAcknowledged ==
    \A u \in Ids : InFlight(lfu[u])
                     => lfu[u].uploadedBytes <= lfu[u].acked /\ lfu[u].start <= lfu[u].acked

\* C4: an upload resumed after an interruption at offset N sends its first
\* chunk from N.
C4_ResumeAtOffset ==
    \A u \in Ids : lfu[u].resumeFrom > 0 /\ lfu[u].chunks > 0
                     => lfu[u].firstStart = lfu[u].resumeFrom

\* C5: no chunk is transmitted more than 3 times.
C5_ThreeAttempts ==
    \A u \in Ids : lfu[u].attempts <= 3

\* C6: a chunk answered with a 4xx status fails the upload at once: no retry
\* delay is taken and the chunk is not sent again.
C6_NonRetryableImmediate ==
    \A u \in Ids : lfu[u].lastResp = "e4xx" => lfu[u].pc = "failed"

\* C7: when the last allowed attempt of a chunk fails, onError runs once for
\* the upload, its batch entry becomes 'failed', onComplete does not run, and
\* a failed upload does nothing further.
C7_ExhaustionTerminal ==
    [][ \A u \in Ids :
          /\ ( /\ lfu[u].pc = "sending" /\ lfu[u].retryCount = MaxRetryCount
               /\ lfu'[u] # lfu[u] /\ lfu'[u].lastResp \in ChunkErrors )
             => /\ lfu'[u].pc = "failed"
                /\ lfu'[u].onError = 1 /\ lfu'[u].onComplete = 0
                /\ lfu[u].parent = "batch" /\ lfu[u].idx \in DOMAIN batch'.fileStatuses
                     => batch'.fileStatuses[lfu[u].idx].status = "failed"
          /\ lfu[u].pc = "failed" => lfu'[u] = lfu[u] ]_vars

C7_Witness ==
    \E u \in Ids : /\ lfu[u].pc = "failed" /\ lfu[u].lastResp \in ChunkErrors
                   /\ lfu[u].onError = 1 /\ lfu[u].onComplete = 0
                   /\ lfu[u].parent = "batch"
                   /\ batch.fileStatuses[lfu[u].idx].status = "failed"

\* C8: onComplete runs only for an upload whose confirmation returned a record.
C8_CompletedOnlyIfConfirmed ==
    \A u \in Ids : lfu[u].onComplete > 0 => lfu[u].confirmed

\* C9: tiers have closed upper bounds, and what a selection starts for each
\* file is what its tier says: one single request for an instant file, one
\* LargeFileUpload for a medium file, nothing for a manual one.
Tier(size) ==
    IF size <= INSTANT_LIMIT THEN "instant" ELSE IF size <= MEDIUM_LIMIT THEN "medium" ELSE "manual"

Started(b, l, i) ==
    [ instant |-> \E req \in b.instant : req.idx = i /\ req.size = b.fileStatuses[i].size,
      large |-> \E u \in Ids : /\ l[u].parent = "batch" /\ l[u].idx = i /\ l[u].pc # "idle"
                               /\ l[u].file = b.fileStatuses[i].size ]

C10_TooLargeNeverStarted ==
    /\ \A u \in Ids : lfu[u].pc # "idle" => lfu[u].file <= MEDIUM_LIMIT
    /\ smart.serverReq <= MEDIUM_LIMIT
    /\ \A req \in batch.instant : req.size <= MEDIUM_LIMIT

\* C11: whatever the single-request uploads, confirm-upload, save-metadata and
\* sync handlers do, and however their steps interleave (two handlers writing
\* the record of the same backend file included), no two File records have
\* the same driveFileId.
C11_DriveFileIdUnique ==
    \A i, j \in DOMAIN db : db[i].driveFileId = db[j].driveFileId => i = j

\* two handlers raced for the record of one file: the loser's create was rejected
C11_Witness ==
    \E k, j \in Slots :
        /\ srv.reqs[k].route = "save-metadata" /\ srv.reqs[k].status = 409
        /\ srv.reqs[j].route = "sync" /\ srv.reqs[j].pc = "done"
        /\ srv.reqs[k].file \in DbFileIds(db)
        /\ Len(db) = MaxDriveFiles

Ceil(a, b) == (a + b - 1) \div b

RecordsOf(d, fileId) == { i \in DOMAIN d : d[i].driveFileId = fileId }

C13_FailureFreeUpload ==
    [][ faults' = 0 =>
          \A u \in Ids :
            /\ lfu[u].pc = "sending" /\ lfu'[u].lastResp = "done"
                 => /\ lfu'[u].pc = "confirming"
                    /\ lfu[u].chunks = Ceil(lfu[u].file, CHUNK_SIZE)
                    /\ lfu[u].attempts = 1
            /\ lfu[u].pc = "sending" /\ lfu[u].chunks < Ceil(lfu[u].file, CHUNK_SIZE)
                 => lfu'[u].lastResp # "done"
            /\ lfu[u].pc = "confirming" /\ lfu'[u].pc # "confirming"
                 => /\ lfu'[u].pc = "done" /\ lfu'[u].onComplete = 1
                    /\ Cardinality(RecordsOf(db', lfu[u].sessionUri)) = 1
                    /\ \A i \in RecordsOf(db', lfu[u].sessionUri) :
                         db'[i].size = lfu[u].file /\ db'[i].driveFileId # NULL ]_vars

C13_Witness ==
    /\ faults = 0
    /\ \E u \in Ids : /\ lfu[u].pc = "done" /\ lfu[u].file = 5 * CHUNK_SIZE
                       /\ lfu[u].confirmed
                       /\ Cardinality(RecordsOf(db, lfu[u].sessionUri)) = 1

\* C14: an upload taken up again after a page reload continues the interrupted
\* session: it holds that session's handle, and the first chunk it sends
\* starts at the offset the backend had confirmed (as a status probe of the
\* session reports it), not at 0 in a session of its own.
C14_ResumeThroughProbe ==
    \A u \in Ids :
        lfu[u].resumeFrom > 0 /\ lfu[u].chunks > 0
          => /\ \E v \in Ids : /\ lfu[v].pc = "dead" /\ lfu[v].file = lfu[u].file
                                /\ lfu[u].sessionUri = lfu[v].sessionUri
             /\ lfu[u].firstStart = interrupted.at

\* C15: an upload has at most one chunk PUT in flight towards the storage
\* backend, the proxy's forwarded requests included, also after timeouts and
\* retries; and the chunk being sent starts where the chunks before it ended.
InFlightToBackend(u) == Cardinality(proxy[u]) + (IF lfu[u].pc = "sending" THEN 1 ELSE 0)

C15_OneChunkInFlight ==
    \A u \in Ids :
        /\ InFlightToBackend(u) <= 1
        /\ lfu[u].pc = "sending"
             => lfu[u].start = lfu[u].firstStart + (lfu[u].chunks - 1) * CHUNK_SIZE

\* C16: once the caller has cancelled an upload (Cancel button or unmount), no
\* chunk of it is stored by the backend any more, onUploadComplete is not
\* called and no File record is created for it.
C16_AbortPropagates ==
    cu.cancelled => cu.lateChunks = 0 /\ cu.lateCallbacks = 0 /\ cu.lateRecords = 0

\* C17: a session-creation request whose type is not in the allow-list or
\* whose size is beyond the maximum is answered with 400, never with success,
\* and no request to the storage backend is made for it.
SessionRoutes == { "create-upload-session", "upload-session", "upload" }

C17_ValidatedFirst ==
    \A k \in Slots :
        srv.reqs[k].route \in SessionRoutes /\ ~Validate(srv.reqs[k].mime, srv.reqs[k].sizeKiB)
          => /\ ~srv.reqs[k].storage
             /\ srv.reqs[k].pc = "done" /\ srv.reqs[k].status = 400 /\ ~srv.reqs[k].success

\* C18: however many getUserFolder invocations there were, overlapping ones
\* included, the owner has at most one root folder and one user folder, and
\* every invocation answered with the same folder.
C18_FolderIdempotent ==
    /\ Cardinality({ f \in srv.folders : f.kind = "user" }) <= 1
    /\ Cardinality({ f \in srv.folders : f.kind = "root" }) <= 1
    /\ Cardinality(srv.returned) <= 1

\* C19: a handler of an upload entry point has called checkRateLimit before
\* it asks anything of the storage backend, and a denied one asks nothing.
C19_RateLimitChecked ==
    \A k \in Slots :
        /\ srv.reqs[k].storage => srv.reqs[k].rateChecked
        /\ srv.reqs[k].status = 429 => ~srv.reqs[k].storage

\* C20: an upload that has reported completion or failure makes no further
\* transition: its instance does nothing more, and the status its entry of the
\* current selection shows for it ('completed' or 'failed') stays as it is.
Reported(u) ==
    /\ lfu[u].parent = "batch" /\ lfu[u].gen = batch.gen
    /\ lfu[u].pc \in {"done", "failed"}
    /\ lfu[u].idx \in DOMAIN batch.fileStatuses
    /\ batch.fileStatuses[lfu[u].idx].status = (IF lfu[u].pc = "done" THEN "completed" ELSE "failed")

C20_TerminalStates ==
    [][ \A u \in Ids :
          /\ lfu[u].pc \in {"done", "failed"} => lfu'[u] = lfu[u]
          /\ Reported(u) /\ batch'.gen = batch.gen
               => batch'.fileStatuses[lfu[u].idx].status = batch.fileStatuses[lfu[u].idx].status ]_vars

\* C21: the delay waited before retry number k of a chunk (k = 0, 1, 2) is
\* base * 2^k: every retry delay is the double of the one before.
C21_DelayDoubles ==
    \A u \in Ids : lfu[u].pc = "backoff" => lfu[u].delay = BaseDelay * 2 ^ lfu[u].retryCount

\* C22: every value passed to onProgress lies in [0, 100], whatever the chunk
\* responses were, an acknowledged range beyond the size of the file included.
C22_ProgressClamped ==
    \A u \in Ids : /\ 0 <= lfu[u].progress.bytes
                   /\ lfu[u].progress.bytes <= lfu[u].progress.total

\* C23: POST /confirm-upload creates a record only when the status probe
\* reports the upload complete: after a probe that reports 308 or fails, the
\* request is answered with an error and the table is as it was.
C23_RecordOnlyIfComplete ==
    [][ /\ ( lastConfirm' # lastConfirm /\ lastConfirm'.probe \in {"incomplete", "error"} )
             => ~lastConfirm'.ok /\ db' = db
        /\ ( \E i \in DOMAIN db' : i \notin DOMAIN db /\ db'[i].via = "confirm" )
             => lastConfirm'.probe \in {"id", "noid"} /\ lastConfirm'.ok ]_vars

C23_Witness ==
    /\ lastConfirm.called /\ lastConfirm.probe = "incomplete" /\ ~lastConfirm.ok
    /\ \E u \in Ids : lfu[u].sessionUri # NULL /\ ByName(driveFiles, lfu[u].file) # {}

\* C24: the queue of BatchUpload stays at a medium file until the
\* LargeFileUpload of that file has called onComplete or onError, so that at
\* most one file of the batch is 'uploading' at any time.
Uploading(b) == { i \in DOMAIN b.fileStatuses : b.fileStatuses[i].status = "uploading" }

C24_OneUploadAtATime ==
    /\ Cardinality(Uploading(batch)) <= 1
    /\ \A i \in Uploading(batch) :
          QueuePath(batch.fileStatuses[i].size) = "medium" => batch.cui = i

\* C25: a selected batch with an uploadable file finishes, provided every
\* started upload calls back: every such file becomes 'completed' or 'failed',
\* and the step that settles the last one invokes onUploadComplete.
HasUploadable ==
    \E i \in DOMAIN batch.fileStatuses : batch.fileStatuses[i].status \in {"pending", "uploading"}

\* performUpload returned without onComplete and without onError
NoCallback == \E u \in Ids : lfu[u].parent = "batch" /\ lfu[u].pc = "exited"

C25_BatchFinishes ==
    /\ HasUploadable ~> (AllProcessed(batch.fileStatuses) \/ NoCallback)
    /\ [][ ( /\ batch'.gen = batch.gen /\ ~AllProcessed(batch.fileStatuses)
             /\ AllProcessed(batch'.fileStatuses) )
           => batch'.completes = batch.completes + 1 ]_vars

C25_Witness ==
    /\ Len(batch.fileStatuses) = MaxFiles /\ AllProcessed(batch.fileStatuses)
    /\ batch.completes > 0 /\ ~AnyPending /\ ~NoCallback
    /\ \E u \in Ids : /\ lfu[u].parent = "batch" /\ lfu[u].gen = batch.gen /\ lfu[u].pc = "done"
                       /\ batch.fileStatuses[lfu[u].idx].status = "completed"

\* C26: the byte usage checkRateLimit compares with maxBytes at time t is the
\* sum of bytesRequested over the owner's requests that the same limiter
\* allowed inside (t - windowMs, t].
C26_BytesOfWindow ==
    LET c == limiter.last
        before == SubSeq(limiter.allowedReqs, 1, c.seen)
        inWindow == SelectSeq(before, LAMBDA q : /\ q.impl = c.impl
                                                  /\ q.at > c.at - RateWindowMs
                                                  /\ q.at <= c.at)
    IN  c.impl # "none" => c.bytesUsed = SumBytes(inWindow)

\* C27: checkRateLimit denies exactly when the request count of the window is
\* at least maxRequests or bytesUsed + bytesRequested exceeds maxBytes, and a
\* denied call records no request.
C27_DeniedOverLimit ==
    LET c == limiter.last
        over == \/ c.requestCount >= RateMaxRequests
                \/ c.bytesUsed + c.bytesRequested > RateMaxKiB
    IN  c.impl # "none" => /\ c.allowed <=> ~over
                           /\ ~c.allowed => ~c.recorded

\* C28: a non-forced call of dedupedFetch made within ttl of the start of a
\* request for the same key does not invoke the fetcher again.
C28_Deduplicated ==
    (dedup.last.called /\ ~dedup.last.force /\ dedup.last.recent) => ~dedup.last.invoked
\* C29: POST /sync completes successfully whatever the records and the listing
\* are (records removed through DELETE included); afterwards every listed file
\* has a record and every record of its snapshot whose file is not listed is
\* marked deleted.
C29_SyncCompletes ==
    \A k \in Slots :
        (srv.reqs[k].route = "sync" /\ srv.reqs[k].pc = "done")
            => /\ srv.reqs[k].success
               /\ srv.reqs[k].listed \subseteq DbFileIds(db)
               /\ \A i \in DOMAIN db :
                      db[i].driveFileId \in srv.reqs[k].gone => db[i].isDeleted
\* C30: the record POST /confirm-upload produces refers to the backend file
\* written through the session named in the request.
C30_RecordOfSession ==
    (lastConfirm.called /\ lastConfirm.ok)
        => db[lastConfirm.recId].driveFileId = lastConfirm.session
====
